---- MODULE Spec2Model ----
(***************************************************************************)
(* Model of py4cast's dataset statistics (compute_dataset_stats.py) and of *)
(* the auto-regressive rollout of pnia's AutoRegressiveLightning           *)
(* (lightning.py).                                                         *)
(*                                                                         *)
(* Tensor entries are finite-precision numbers: an entry is a record       *)
(* [k |-> "num", v |-> n] standing for n * 2^-FracBits, the NaN record or  *)
(* an infinity record.  Every product and quotient is rounded to the       *)
(* nearest representable number, ties to even, as the float32 arithmetic   *)
(* of torch rounds every result; sums of representable numbers are exact.  *)
(***************************************************************************)
EXTENDS Integers, Sequences, FiniteSets, TLC

VARIABLES
    \* the statistics procedures (compute_dataset_stats.py)
    dataset,          \* the dataset: its batches in order, an item as its first time slice
    standardize,      \* dataset.settings.standardize
    procedure,        \* the procedure called: "params", "diff" or "none" yet
    pc,               \* where the procedure stands
    type_index,       \* position in ["inputs", "outputs", "forcing"] (line 122)
    counter,          \* the accumulators of lines 52-65 and 133-136
    sum_means,
    sum_squares,
    best_min,
    best_max,
    results,          \* per batch: <<>> while its worker runs, then <<result>>
    batch_index,      \* the batch the loop of line 140 is at
    warned,           \* tensor types for which warnings.warn was called (line 62)
    stats,            \* what compute_mean_std_min_max returned last, as <<dict>>
    all_stats,        \* line 119, 124
    parameters_file,  \* parameters_stats1.pt: <<>> or <<the saved dict>>
    diff_file,        \* diff_stats1.pt: <<>> or <<the saved dict>>
    error,            \* the exception that ended the procedure, or "none"
    workers_started,  \* history: worker tasks that have run
    worker_failures,  \* history: worker tasks that raised
    \* AutoRegressiveLightning.common_step (lightning.py)
    num_input_steps,  \* batch.num_input_steps
    num_pred_steps,   \* batch.num_pred_steps
    init_states,      \* what model.transform_batch(batch) returned (line 151-155)
    target_states,
    forcing_features,
    border_mask,      \* buffers registered from the statics (line 115)
    interior_mask,
    step_diff_std,
    step_diff_mean,
    prev_states,      \* the rollout window (line 157)
    prediction_list,  \* line 159
    step,             \* the loop index i of line 163
    x_input,          \* the last model input x (line 168), as the list of its parts
    rpc,              \* where common_step stands
    returned,         \* <<>> or <<[prediction, target_states]>> (line 202)
    model_calls,      \* history: calls of self.model (line 178)
    window_list,      \* history: the window each step started with
    y_list,           \* history: the model output of each step
    \* the statics of AutoRegressiveLightning (lightning.py)
    heap,             \* the Statics objects alive, an object's reference its index
    cached_statics,   \* reference of hparams.dataset_info.statics (line 68)
    lpc,              \* the module: "none" built yet, "ready" or "failed" to build
    buffers,          \* <<>> or <<the statics register_buffers was called on>> (115)
    call_log          \* history: one record per call of __init__ and of the hooks

(* ------------------------------ bounds --------------------------------- *)

\* Total number of samples of a dataset.
MaxSamples == 3

\* Fractional bits kept by the arithmetic: one unit in the last place is 2^-FracBits.
FracBits == 1

(* --------------------------- tensor entries ---------------------------- *)

Num(n) == [k |-> "num", v |-> n]

NaN == [k |-> "nan", v |-> 0]

PosInf == [k |-> "inf", v |-> 1]

NegInf == [k |-> "inf", v |-> -1]

isnan(x) == x.k = "nan"

RECURSIVE Pow2(_)
Pow2(n) == IF n = 0 THEN 1 ELSE 2 * Pow2(n - 1)

\* a / n for n > 0, rounded to the nearest integer, ties to even.
RoundDiv(a, n) ==
    LET q == a \div n
        r == a - q * n
    IN  IF 2 * r < n THEN q
        ELSE IF 2 * r > n THEN q + 1
        ELSE IF q % 2 = 0 THEN q ELSE q + 1

\* x * y of two numbers, rounded (NaN propagates).
FMul(x, y) ==
    IF isnan(x) \/ isnan(y) THEN NaN
    ELSE Num(RoundDiv(x.v * y.v, Pow2(FracBits)))

\* x / n for an integer n > 0, rounded (NaN propagates).
FDivInt(x, n) == IF isnan(x) THEN NaN ELSE Num(RoundDiv(x.v, n))

FAdd(x, y) == IF isnan(x) \/ isnan(y) THEN NaN ELSE Num(x.v + y.v)

FSub(x, y) == IF isnan(x) \/ isnan(y) THEN NaN ELSE Num(x.v - y.v)

\* Square root of n * 2^-FracBits in units of 2^-FracBits, rounded to nearest.
SqrtUnits(n) ==
    LET m == n * Pow2(FracBits)
    IN  CHOOSE s \in 0..(m + 1) :
            /\ (s = 0 \/ (2 * s - 1) * (2 * s - 1) <= 4 * m)
            /\ 4 * m < (2 * s + 1) * (2 * s + 1)

\* torch.sqrt: NaN for a negative argument.
FSqrt(x) ==
    IF isnan(x) THEN NaN
    ELSE IF x.v < 0 THEN NaN
    ELSE Num(SqrtUnits(x.v))

\* torch.nan_to_num(tensor, repl) on one entry.
nan_to_num(x, repl) == IF isnan(x) THEN repl ELSE x

\* Order of the non-NaN entries (numbers and the two infinities).
LessEq(a, b) ==
    \/ a = NegInf
    \/ b = PosInf
    \/ (a.k = "num" /\ b.k = "num" /\ a.v <= b.v)

Min2(a, b) == IF LessEq(a, b) THEN a ELSE b

Max2(a, b) == IF LessEq(a, b) THEN b ELSE a

RECURSIVE MinSeq(_)
MinSeq(s) == IF Len(s) = 1 THEN s[1] ELSE Min2(s[1], MinSeq(Tail(s)))

RECURSIVE MaxSeq(_)
MaxSeq(s) == IF Len(s) = 1 THEN s[1] ELSE Max2(s[1], MaxSeq(Tail(s)))

\* torch.nansum over a sequence of entries: NaN counts as zero.
RECURSIVE nansum(_)
nansum(s) ==
    IF s = <<>> THEN Num(0)
    ELSE FAdd(nan_to_num(s[1], Num(0)), nansum(Tail(s)))

RECURSIVE CountNum(_)
CountNum(s) ==
    IF s = <<>> THEN 0
    ELSE (IF isnan(s[1]) THEN 0 ELSE 1) + CountNum(Tail(s))

\* Tensor.nanmean over a sequence of entries: NaN when every entry is NaN.
nanmean(s) ==
    IF CountNum(s) = 0 THEN NaN ELSE FDivInt(nansum(s), CountNum(s))

RECURSIVE Concat(_)
Concat(ss) == IF ss = <<>> THEN <<>> ELSE ss[1] \o Concat(Tail(ss))

(* ------------------------------ dataset -------------------------------- *)

\* Time steps of the inputs and of the outputs tensor of one item.
NumInputSteps == 1

NumOutputSteps == 1

TensorTypes == <<"inputs", "outputs", "forcing">>

\* NamedTensor.feature_names of each tensor of an item: inputs and outputs carry
\* the same weather parameter, forcing its own.
feature_names(type_tensor) == IF type_tensor = "forcing" THEN {"f"} ELSE {"u"}

\* The grid points of one time slice of an item (the flattened spatial axes).
Points == 1..2

EntryValues == {NaN, Num(1), Num(2)}

Rank(x) == IF isnan(x) THEN 0 ELSE x.v

\* Every reduction of the statistics runs over all grid points of a sample, so
\* the first time slice of a sample is drawn up to the order of its points.
InitialGrids ==
    {g \in [Points -> EntryValues] :
        \A p \in Points : \A q \in Points : p < q => Rank(g[p]) <= Rank(g[q])}

\* The next time slice of a trajectory: each value doubles, missing stays missing.
Advance(x) == IF isnan(x) THEN NaN ELSE Num(2 * x.v)

RECURSIVE AdvanceBy(_, _)
AdvanceBy(x, n) == IF n = 0 THEN x ELSE AdvanceBy(Advance(x), n - 1)

\* One item: tensors indexed [time][point][feature].
ItemOf(g) ==
    [inputs  |-> [t \in 1..NumInputSteps |->
                    [p \in Points |-> [f \in {"u"} |-> AdvanceBy(g[p], t - 1)]]],
     outputs |-> [t \in 1..NumOutputSteps |->
                    [p \in Points |->
                        [f \in {"u"} |-> AdvanceBy(g[p], NumInputSteps + t - 1)]]],
     forcing |-> [t \in 1..NumOutputSteps |->
                    [p \in Points |-> [f \in {"f"} |-> Num(1)]]]]

\* items cut into consecutive batches after the positions in cuts.
RECURSIVE Chunks(_, _, _, _)
Chunks(items, cuts, i, cur) ==
    IF i > Len(items) THEN <<cur>>
    ELSE IF (i - 1) \in cuts
         THEN <<cur>> \o Chunks(items, cuts, i + 1, <<items[i]>>)
         ELSE Chunks(items, cuts, i + 1, Append(cur, items[i]))

\* The datasets considered: up to MaxSamples items in any partition into batches,
\* each item given by the first time slice of its trajectory.
Datasets ==
    {Chunks(gs, cuts, 1, <<>>) :
        <<n, gs, cuts>> \in
            UNION {{<<n, gs, cuts>> : gs \in [1..n -> InitialGrids],
                                      cuts \in SUBSET (1..(n - 1))} :
                    n \in 1..MaxSamples}}

\* The batches of items dataset.torch_dataloader() yields from dataset `ds`.
torch_dataloader(ds) ==
    [b \in 1..Len(ds) |-> [k \in 1..Len(ds[b]) |-> ItemOf(ds[b][k])]]

(* ------------------------ compute_stats_worker ------------------------- *)

\* tensor.flatten(1, 3) of one sample: all time slices and points, in order.
Flatten(sample_tensor) == Concat(sample_tensor)

\* The entries of feature f of a flattened sample.
Column(flat, f) == [i \in 1..Len(flat) |-> flat[i][f]]

SquareAll(col) == [i \in 1..Len(col) |-> FMul(col[i], col[i])]

NanToNumAll(col, repl) == [i \in 1..Len(col) |-> nan_to_num(col[i], repl)]

\* torch.min(..., 1) reduces the points of every sample; .values[0] then keeps the
\* row of the first sample of the batch.
compute_stats_worker(batch, type_tensor) ==
    LET tensor == [b \in 1..Len(batch) |-> Flatten(batch[b][type_tensor])]
        feats  == feature_names(type_tensor)
    IN  [counter     |-> Len(tensor),
         sum_means   |-> [f \in feats |->
                            nansum([b \in 1..Len(tensor) |->
                                        nanmean(Column(tensor[b], f))])],
         sum_squares |-> [f \in feats |->
                            nansum([b \in 1..Len(tensor) |->
                                        nanmean(SquareAll(Column(tensor[b], f)))])],
         mini        |-> [f \in feats |->
                            MinSeq(NanToNumAll(Column(tensor[1], f), PosInf))],
         maxi        |-> [f \in feats |->
                            MaxSeq(NanToNumAll(Column(tensor[1], f), NegInf))]]

(* ----------------------- compute_mean_std_min_max ---------------------- *)

\* named_tensor.tensor.flatten(0, ndim_features - 1) of a batch: every point of
\* every sample.
FlatBatch(batch, type_tensor) ==
    Concat([b \in 1..Len(batch) |-> Flatten(batch[b][type_tensor])])

\* torch.isnan(flat_input).any()
HasNaN(batch, type_tensor) ==
    \E i \in 1..Len(FlatBatch(batch, type_tensor)) :
        \E f \in feature_names(type_tensor) :
            isnan(FlatBatch(batch, type_tensor)[i][f])

\* The accumulators as lines 52-65 leave them, from the first batch the loader yields.
InitialAccumulators(random_batch, type_tensor) ==
    LET feats == feature_names(type_tensor)
        flat  == FlatBatch(random_batch, type_tensor)
    IN  [counter     |-> 0,
         sum_means   |-> [f \in feats |-> Num(0)],
         sum_squares |-> [f \in feats |-> Num(0)],
         best_min    |-> [f \in feats |-> MinSeq(NanToNumAll(Column(flat, f), PosInf))],
         best_max    |-> [f \in feats |-> MaxSeq(NanToNumAll(Column(flat, f), NegInf))]]

\* One turn of the loop over the workers' results (lines 85-92).
MergeResult(acc, result) ==
    [counter     |-> acc.counter + result.counter,
     sum_means   |-> [f \in DOMAIN acc.sum_means |->
                        FAdd(acc.sum_means[f], result.sum_means[f])],
     sum_squares |-> [f \in DOMAIN acc.sum_squares |->
                        FAdd(acc.sum_squares[f], result.sum_squares[f])],
     best_min    |-> [f \in DOMAIN acc.best_min |->
                        Min2(acc.best_min[f], result.mini[f])],
     best_max    |-> [f \in DOMAIN acc.best_max |->
                        Max2(acc.best_max[f], result.maxi[f])]]

\* The whole loop over results (lines 84-95), in the order of the list.
RECURSIVE MergeAll(_, _)
MergeAll(acc, rs) ==
    IF rs = <<>> THEN acc ELSE MergeAll(MergeResult(acc, rs[1]), Tail(rs))

\* std of lines 99-101 and of lines 153-155.
StdOf(sum_mean, sum_square, count) ==
    LET mean          == FDivInt(sum_mean, count)
        second_moment == FDivInt(sum_square, count)
    IN  FSqrt(FSub(second_moment, FMul(mean, mean)))

\* The stats dictionary of lines 99-110.
FinalStats(acc) ==
    [f \in DOMAIN acc.sum_means |->
        [mean |-> FDivInt(acc.sum_means[f], acc.counter),
         std  |-> StdOf(acc.sum_means[f], acc.sum_squares[f], acc.counter),
         min  |-> acc.best_min[f],
         max  |-> acc.best_max[f]]]

\* compute_mean_std_min_max on a loader yielding `batches`, when no worker fails.
MeanStdMinMax(batches, type_tensor) ==
    FinalStats(MergeAll(InitialAccumulators(batches[1], type_tensor),
                        [b \in 1..Len(batches) |->
                            compute_stats_worker(batches[b], type_tensor)]))

\* stats_dict | all_stats: the keys of both, the right operand's value on a clash.
DictOr(left, right) ==
    [name \in (DOMAIN left) \cup (DOMAIN right) |->
        IF name \in DOMAIN right THEN right[name] ELSE left[name]]

(* ----------------------- compute_time_step_stats ----------------------- *)

\* One sample of diff = in_out[:, 1:] - in_out[:, :-1], flattened (lines 145-147).
DiffSample(item) ==
    LET in_out == item.inputs \o item.outputs
    IN  Concat([t \in 1..(Len(in_out) - 1) |->
                    [p \in 1..Len(in_out[t]) |->
                        [f \in DOMAIN in_out[t][p] |->
                            FSub(in_out[t + 1][p][f], in_out[t][p][f])]]])

\* One turn of the loop over batches (lines 140-151).
DiffAccumulate(acc, batch) ==
    LET diff == [b \in 1..Len(batch) |-> DiffSample(batch[b])]
    IN  [counter     |-> acc.counter + Len(batch),
         sum_means   |-> [f \in DOMAIN acc.sum_means |->
                            FAdd(acc.sum_means[f],
                                 nansum([b \in 1..Len(diff) |->
                                            nanmean(Column(diff[b], f))]))],
         sum_squares |-> [f \in DOMAIN acc.sum_squares |->
                            FAdd(acc.sum_squares[f],
                                 nansum([b \in 1..Len(diff) |->
                                            nanmean(SquareAll(Column(diff[b], f)))]))]]

\* store_d of lines 153-167: the inputs' features, then the forcing's fixed entries.
DiffStats(acc) ==
    LET store_inputs == [f \in feature_names("inputs") |->
                            [mean |-> FDivInt(acc.sum_means[f], acc.counter),
                             std  |-> StdOf(acc.sum_means[f], acc.sum_squares[f],
                                            acc.counter)]]
        ForcingUnit  == Pow2(FracBits)
        store_forcing == [f \in feature_names("forcing") |->
                            [mean |-> Num(0), std |-> Num(ForcingUnit)]]
    IN  DictOr(store_inputs, store_forcing)

(* ------------------------- the statistics procedures ------------------- *)

stats_vars ==
    <<dataset, standardize, procedure, pc, type_index, counter, sum_means,
      sum_squares, best_min, best_max, results, batch_index, warned, stats,
      all_stats, parameters_file, diff_file, error, workers_started,
      worker_failures>>

other_vars ==
    <<num_input_steps, num_pred_steps, init_states, target_states, forcing_features,
      border_mask, interior_mask, step_diff_std, step_diff_mean, prev_states,
      prediction_list, step, x_input, rpc, returned, model_calls, window_list, y_list>>

\* common_step is not running.
NoRollout ==
    /\ num_input_steps = 1
    /\ num_pred_steps = 1
    /\ init_states = <<>>
    /\ target_states = <<>>
    /\ forcing_features = <<>>
    /\ border_mask = <<>>
    /\ interior_mask = <<>>
    /\ step_diff_std = 1
    /\ step_diff_mean = 0
    /\ prev_states = <<>>
    /\ prediction_list = <<>>
    /\ step = 0
    /\ x_input = <<>>
    /\ rpc = "off"
    /\ returned = <<>>
    /\ model_calls = 0
    /\ window_list = <<>>
    /\ y_list = <<>>

statics_vars == <<heap, cached_statics, lpc, buffers, call_log>>

\* No AutoRegressiveLightning is being built or run.
NoStatics ==
    /\ heap = <<>>
    /\ cached_statics = 0
    /\ lpc = "off"
    /\ buffers = <<>>
    /\ call_log = <<>>

vars == <<stats_vars, other_vars, statics_vars>>

type_tensor == TensorTypes[type_index]

Accumulators ==
    [counter |-> counter, sum_means |-> sum_means, sum_squares |-> sum_squares,
     best_min |-> best_min, best_max |-> best_max]

InitStats ==
    /\ dataset \in Datasets
    /\ standardize \in BOOLEAN
    /\ procedure = "none"
    /\ pc = "idle"
    /\ type_index = 1
    /\ counter = 0
    /\ sum_means = <<>>
    /\ sum_squares = <<>>
    /\ best_min = <<>>
    /\ best_max = <<>>
    /\ results = <<>>
    /\ batch_index = 1
    /\ warned = {}
    /\ stats = <<>>
    /\ all_stats = <<>>
    /\ parameters_file = <<>>
    /\ diff_file = <<>>
    /\ error = "none"
    /\ workers_started = 0
    /\ worker_failures = 0
    /\ NoRollout
    /\ NoStatics

\* compute_parameters_stats is called: line 119.
CallParametersStats ==
    /\ pc = "idle"
    /\ procedure' = "params"
    /\ all_stats' = <<>>
    /\ type_index' = 1
    /\ pc' = "prologue"
    /\ UNCHANGED <<dataset, standardize, counter, sum_means, sum_squares, best_min,
                   best_max, results, batch_index, warned, stats, parameters_file,
                   diff_file, error, workers_started, worker_failures>>
    /\ UNCHANGED <<other_vars, statics_vars>>

\* A check that lets every dataset through.
NeverRaises == FALSE

\* The condition of line 68.
RaisesOnStandardized == standardize

\* compute_mean_std_min_max up to the call of Parallel: lines 36-69.  The branch of
\* line 41 compares type_tensor with "output", which is none of the three tensor
\* types, so it is never taken.
Prologue ==
    /\ pc = "prologue"
    /\ LET acc == InitialAccumulators(torch_dataloader(dataset)[1], type_tensor)
       IN  /\ counter' = acc.counter
           /\ sum_means' = acc.sum_means
           /\ sum_squares' = acc.sum_squares
           /\ best_min' = acc.best_min
           /\ best_max' = acc.best_max
    /\ warned' = IF HasNaN(torch_dataloader(dataset)[1], type_tensor)
                 THEN warned \cup {type_tensor} ELSE warned
    /\ IF RaisesOnStandardized
       THEN /\ error' = "ValueError"
            /\ pc' = "failed"
            /\ UNCHANGED results
       ELSE /\ results' = [b \in 1..Len(dataset) |-> <<>>]
            /\ pc' = "workers"
            /\ UNCHANGED error
    /\ UNCHANGED <<dataset, standardize, procedure, type_index, batch_index, stats,
                   all_stats, parameters_file, diff_file, workers_started,
                   worker_failures>>
    /\ UNCHANGED <<other_vars, statics_vars>>

\* One task of Parallel(...) returns: lines 75-78.
Worker(b) ==
    /\ pc = "workers"
    /\ results[b] = <<>>
    /\ results' = [results EXCEPT ![b] = 
                     <<compute_stats_worker(torch_dataloader(dataset)[b], type_tensor)>>]
    /\ workers_started' = workers_started + 1
    /\ UNCHANGED <<dataset, standardize, procedure, pc, type_index, counter,
                   sum_means, sum_squares, best_min, best_max, batch_index, warned,
                   stats, all_stats, parameters_file, diff_file, error,
                   worker_failures>>
    /\ UNCHANGED <<other_vars, statics_vars>>

\* A dropped task: its result counts for nothing in the merge.
WorkerFailureDropped(b) ==
    /\ pc = "workers"
    /\ results[b] = <<>>
    /\ results' = [results EXCEPT ![b] =
                     <<[counter     |-> 0,
                        sum_means   |-> [f \in feature_names(type_tensor) |-> Num(0)],
                        sum_squares |-> [f \in feature_names(type_tensor) |-> Num(0)],
                        mini        |-> [f \in feature_names(type_tensor) |-> PosInf],
                        maxi        |-> [f \in feature_names(type_tensor) |-> NegInf]]>>]
    /\ workers_started' = workers_started + 1
    /\ worker_failures' = worker_failures + 1
    /\ UNCHANGED <<dataset, standardize, procedure, pc, type_index, counter,
                   sum_means, sum_squares, best_min, best_max, batch_index, warned,
                   stats, all_stats, parameters_file, diff_file, error>>
    /\ UNCHANGED <<other_vars, statics_vars>>

\* One task of Parallel(...) raises: the exception leaves list(...) of line 73, which
\* nothing catches in compute_mean_std_min_max or compute_parameters_stats.
WorkerFailure(b) ==
    /\ pc = "workers"
    /\ results[b] = <<>>
    /\ error' = "WorkerError"
    /\ pc' = "failed"
    /\ workers_started' = workers_started + 1
    /\ worker_failures' = worker_failures + 1
    /\ UNCHANGED <<dataset, standardize, procedure, type_index, counter, sum_means,
                   sum_squares, best_min, best_max, results, batch_index, warned,
                   stats, all_stats, parameters_file, diff_file>>
    /\ UNCHANGED <<other_vars, statics_vars>>

\* All results are in: the merge loop, the final reduction and the return to
\* compute_parameters_stats (lines 84-112, then 124 and the next turn of line 122).
Reduce ==
    /\ pc = "workers"
    /\ \A b \in 1..Len(dataset) : results[b] # <<>>
    /\ LET acc == MergeAll(Accumulators, [b \in 1..Len(dataset) |-> results[b][1]])
       IN  /\ counter' = acc.counter
           /\ sum_means' = acc.sum_means
           /\ sum_squares' = acc.sum_squares
           /\ best_min' = acc.best_min
           /\ best_max' = acc.best_max
           /\ stats' = <<FinalStats(acc)>>
           /\ all_stats' = DictOr(FinalStats(acc), all_stats)
    /\ IF type_index < Len(TensorTypes)
       THEN /\ type_index' = type_index + 1
            /\ pc' = "prologue"
       ELSE /\ pc' = "save"
            /\ UNCHANGED type_index
    /\ UNCHANGED <<dataset, standardize, procedure, results, batch_index, warned,
                   parameters_file, diff_file, error, workers_started,
                   worker_failures>>
    /\ UNCHANGED <<other_vars, statics_vars>>

\* torch_save(all_stats, dest_file): lines 126-128.
SaveParameters ==
    /\ pc = "save"
    /\ parameters_file' = <<all_stats>>
    /\ pc' = "done"
    /\ UNCHANGED <<dataset, standardize, procedure, type_index, counter, sum_means,
                   sum_squares, best_min, best_max, results, batch_index, warned,
                   stats, all_stats, diff_file, error, workers_started,
                   worker_failures>>
    /\ UNCHANGED <<other_vars, statics_vars>>

\* compute_time_step_stats is called.
CallTimeStepStats ==
    /\ pc = "idle"
    /\ procedure' = "diff"
    /\ pc' = "diff_prologue"
    /\ UNCHANGED <<dataset, standardize, type_index, counter, sum_means, sum_squares,
                   best_min, best_max, results, batch_index, warned, stats,
                   all_stats, parameters_file, diff_file, error, workers_started,
                   worker_failures>>
    /\ UNCHANGED <<other_vars, statics_vars>>

\* The condition of line 137.
RaisesOnRaw == ~standardize

\* compute_time_step_stats up to its loop: lines 132-138.
DiffPrologue ==
    /\ pc = "diff_prologue"
    /\ sum_means' = [f \in feature_names("inputs") |-> Num(0)]
    /\ sum_squares' = [f \in feature_names("inputs") |-> Num(0)]
    /\ counter' = 0
    /\ IF RaisesOnRaw
       THEN /\ error' = "ValueError"
            /\ pc' = "failed"
       ELSE /\ pc' = "diff_loop"
            /\ UNCHANGED error
    /\ batch_index' = 1
    /\ UNCHANGED <<dataset, standardize, procedure, type_index, best_min, best_max,
                   results, warned, stats, all_stats, parameters_file, diff_file,
                   workers_started, worker_failures>>
    /\ UNCHANGED <<other_vars, statics_vars>>

\* One turn of the loop of line 140.
DiffBatch ==
    /\ pc = "diff_loop"
    /\ batch_index <= Len(dataset)
    /\ LET acc == DiffAccumulate(Accumulators, torch_dataloader(dataset)[batch_index])
       IN  /\ counter' = acc.counter
           /\ sum_means' = acc.sum_means
           /\ sum_squares' = acc.sum_squares
    /\ batch_index' = batch_index + 1
    /\ UNCHANGED <<dataset, standardize, procedure, pc, type_index, best_min,
                   best_max, results, warned, stats, all_stats, parameters_file,
                   diff_file, error, workers_started, worker_failures>>
    /\ UNCHANGED <<other_vars, statics_vars>>

\* The loop is over: the final reduction and torch_save (lines 153-170).
DiffFinish ==
    /\ pc = "diff_loop"
    /\ batch_index > Len(dataset)
    /\ diff_file' = <<DiffStats(Accumulators)>>
    /\ pc' = "done"
    /\ UNCHANGED <<dataset, standardize, procedure, type_index, counter, sum_means,
                   sum_squares, best_min, best_max, results, batch_index, warned,
                   stats, all_stats, parameters_file, error, workers_started,
                   worker_failures>>
    /\ UNCHANGED <<other_vars, statics_vars>>

NextStats ==
    \/ CallParametersStats
    \/ Prologue
    \/ \E b \in 1..Len(dataset) : Worker(b)
    \/ \E b \in 1..Len(dataset) : WorkerFailure(b)
    \/ Reduce
    \/ SaveParameters
    \/ CallTimeStepStats
    \/ DiffPrologue
    \/ DiffBatch
    \/ DiffFinish

SpecStats == InitStats /\ [][NextStats]_vars

(* ------------------------- statistics: properties ---------------------- *)

\* compute_mean_std_min_max has just returned to compute_parameters_stats.
StatsReturned == stats # <<>> /\ pc \in {"prologue", "save"}

\* The tensor type the returned stats are of.
StatsType == IF pc = "prologue" THEN TensorTypes[type_index - 1] ELSE type_tensor

\* Every sample of the dataset, as one batch.
AllSamples == Concat(torch_dataloader(dataset))

\* The entries of feature f over all samples and all non-feature axes.
AllEntries(type, f) == Column(FlatBatch(AllSamples, type), f)

NotMissing(x) == ~isnan(x)

\* The per-sample means of feature f, one per sample that has a non-missing entry.
SampleMeans(type, f) ==
    SelectSeq([b \in 1..Len(AllSamples) |->
                  nanmean(Column(Flatten(AllSamples[b][type]), f))],
              NotMissing)

\* C1: whatever the partition of the samples into batches, the statistics
\* compute_mean_std_min_max returns (mean, std, min, max per feature, from the merged
\* counts and sums) equal those of the same samples processed as a single batch.
C1_PartitionIndependent ==
    StatsReturned => stats[1] = MeanStdMinMax(<<AllSamples>>, StatsType)

\* C2: the returned min of every feature is its smallest non-missing value over all
\* samples of all batches and all non-feature axes, and the returned max its largest.
C2_MinMaxOverAllSamples ==
    StatsReturned =>
        \A f \in feature_names(StatsType) :
            LET present == SelectSeq(AllEntries(StatsType, f), NotMissing)
            IN  present # <<>> =>
                    /\ stats[1][f].min = MinSeq(present)
                    /\ stats[1][f].max = MaxSeq(present)

\* C3: missing entries count neither in the sum nor in the divisor: the returned mean
\* of every feature is the mean of the data with the missing entries removed, so a
\* sample whose entries are all missing is left out of the divisor as well.
C3_MeanIgnoresMissing ==
    StatsReturned =>
        \A f \in feature_names(StatsType) :
            LET means == SampleMeans(StatsType, f)
            IN  means # <<>> =>
                    stats[1][f].mean = FDivInt(nansum(means), Len(means))

IsNonNegative(x) == x.k = "num" /\ x.v >= 0

\* C4: both procedures end with std >= 0 for every feature: a negative variance is
\* clamped to zero before the square root, so std is never undefined.
C4_StdNonNegative ==
    /\ StatsReturned =>
          \A f \in feature_names(StatsType) : IsNonNegative(stats[1][f].std)
    /\ diff_file # <<>> =>
          \A f \in DOMAIN diff_file[1] : IsNonNegative(diff_file[1][f].std)

\* C9: once a worker task has failed, compute_parameters_stats has ended with that
\* error and no statistics table is persisted, whatever had been computed before.
C9_WorkerFailureAborts ==
    worker_failures > 0 =>
        /\ pc = "failed"
        /\ error = "WorkerError"
        /\ parameters_file = <<>>

\* A task fails while another of the same tensor type has returned and the stats of
\* an earlier tensor type are already in all_stats.
C9_Witness ==
    /\ worker_failures > 0
    /\ pc = "failed"
    /\ all_stats # <<>>
    /\ \E b \in 1..Len(dataset) : results[b] # <<>>

\* The accumulators the workers' results are summed into are still zero.
NoBatchSummed ==
    /\ counter = 0
    /\ \A f \in DOMAIN sum_means : sum_means[f] = Num(0)
    /\ \A f \in DOMAIN sum_squares : sum_squares[f] = Num(0)

\* The procedure has been called on a dataset whose standardize flag it rejects.
WrongFlag ==
    \/ procedure = "params" /\ standardize
    \/ procedure = "diff" /\ ~standardize

\* C10 (as amended): on a dataset with the wrong standardize flag each procedure ends
\* with a ValueError before any worker is started, before any batch is added to
\* counter, sum_means or sum_squares and without persisting a file.
C10_FlagCheckedBeforeSums ==
    WrongFlag =>
        /\ pc \in {"prologue", "diff_prologue", "failed"}
        /\ pc = "failed" => error = "ValueError"
        /\ workers_started = 0
        /\ batch_index = 1
        /\ NoBatchSummed
        /\ parameters_file = <<>>
        /\ diff_file = <<>>

\* compute_parameters_stats has raised on a standardized dataset, with best_min
\* already taken from the first batch.
C10_Witness ==
    /\ procedure = "params"
    /\ standardize
    /\ pc = "failed"
    /\ error = "ValueError"
    /\ best_min # <<>>

\* C10 (as stated): the flag is checked before anything is accumulated, so when the
\* procedure ends with the precondition error no batch has been processed into any
\* accumulator, best_min and best_max included.
C10_FlagCheckedBeforeAnything ==
    (WrongFlag /\ pc = "failed") =>
        /\ workers_started = 0
        /\ NoBatchSummed
        /\ best_min = <<>>
        /\ best_max = <<>>
        /\ parameters_file = <<>>
        /\ diff_file = <<>>

\* C12: when compute_mean_std_min_max returns, the missing-value warning has been
\* emitted for the tensor type exactly when some batch of the dataset holds a missing
\* value of that type: always when one does, never when none does.
C12_WarnsOnAnyMissing ==
    StatsReturned =>
        (StatsType \in warned <=> HasNaN(AllSamples, StatsType))

(* ------------------- AutoRegressiveLightning.common_step --------------- *)

\* Longest window and longest rollout of a batch.
MaxInputSteps == 2

MaxPredSteps == 2

\* The grid points.  A state of the grid is a function from Grid to numbers; the
\* batch and feature axes, along which every operation of common_step is pointwise,
\* are left out.
Grid == {1, 2}

\* The tensors model.transform_batch returns hold a different value at every step
\* and point, so that an entry taken from the wrong place shows.
InitStatesOf(n) == [k \in 1..n |-> [p \in Grid |-> 10 * k + p]]

TargetStatesOf(n) == [k \in 1..n |-> [p \in Grid |-> 100 * k + p]]

ForcingFeaturesOf(n) == [k \in 1..n |-> [p \in Grid |-> 1000 * k + p]]

\* self.grid_static_features[: batch.batch_size]
grid_static_features == [p \in Grid |-> 7]

\* What self.model may answer at one point.
ModelOutputs == {0, 1}

\* The batch keeps the invariant of its step counts.
ValidBatch ==
    /\ Len(init_states) = num_input_steps
    /\ Len(target_states) = num_pred_steps
    /\ Len(forcing_features) = num_pred_steps

InitRollout ==
    /\ num_input_steps \in 1..MaxInputSteps
    /\ num_pred_steps \in 1..MaxPredSteps
    /\ \E n \in 1..MaxInputSteps : init_states = InitStatesOf(n)
    /\ \E n \in 1..MaxPredSteps : target_states = TargetStatesOf(n)
    /\ \E n \in 1..MaxPredSteps : forcing_features = ForcingFeaturesOf(n)
    /\ border_mask \in [Grid -> {0, 1}]
    /\ interior_mask = [p \in Grid |-> 1 - border_mask[p]]
    /\ step_diff_std \in {1, 2}
    /\ step_diff_mean \in {0, 1}
    /\ prev_states = <<>>
    /\ prediction_list = <<>>
    /\ step = 0
    /\ x_input = <<>>
    /\ rpc = "start"
    /\ returned = <<>>
    /\ model_calls = 0
    /\ window_list = <<>>
    /\ y_list = <<>>
    \* the statistics procedures are not running
    /\ dataset = <<>>
    /\ standardize = FALSE
    /\ procedure = "none"
    /\ pc = "off"
    /\ type_index = 1
    /\ counter = 0
    /\ sum_means = <<>>
    /\ sum_squares = <<>>
    /\ best_min = <<>>
    /\ best_max = <<>>
    /\ results = <<>>
    /\ batch_index = 1
    /\ warned = {}
    /\ stats = <<>>
    /\ all_stats = <<>>
    /\ parameters_file = <<>>
    /\ diff_file = <<>>
    /\ error = "none"
    /\ workers_started = 0
    /\ worker_failures = 0
    /\ NoStatics

\* predicted_state of lines 181-183.
Rescale(last_state, y) ==
    [p \in Grid |-> last_state[p] + y[p] * step_diff_std + step_diff_mean]

\* The two masks taken for each other.
SwappedBlend(border_state, predicted_state) ==
    [p \in Grid |->
        interior_mask[p] * border_state[p] + border_mask[p] * predicted_state[p]]

\* new_state of lines 186-188.
Blend(border_state, predicted_state) ==
    [p \in Grid |->
        border_mask[p] * border_state[p] + interior_mask[p] * predicted_state[p]]

\* A window that keeps its oldest entry.
AppendToWindow(window, new_state) == Append(window, new_state)

\* torch.cat([prev_states[:, 1:], new_state.unsqueeze(1)], dim=1) of lines 194-196.
AdvanceWindow(window, new_state) == Append(Tail(window), new_state)

\* A loop that stops one step early.
LoopStopsEarly == step < num_pred_steps - 1

\* for i in range(batch.num_pred_steps): another turn is due (line 163).
LoopContinues == step < num_pred_steps

\* Lines 151-159.
StartCommonStep ==
    /\ rpc = "start"
    /\ prev_states' = init_states
    /\ prediction_list' = <<>>
    /\ step' = 0
    /\ rpc' = "loop"
    /\ UNCHANGED <<num_input_steps, num_pred_steps, init_states, target_states,
                   forcing_features, border_mask, interior_mask, step_diff_std,
                   step_diff_mean, x_input, returned, model_calls, window_list,
                   y_list>>
    /\ UNCHANGED <<stats_vars, statics_vars>>

\* Indexing forcing_features[:, i], target_states[:, i] or prev_states[:, idx]
\* (lines 165-169) past the end raises IndexError.
IndexErrorAt(k) ==
    \/ k + 1 > Len(forcing_features)
    \/ k + 1 > Len(target_states)
    \/ num_input_steps > Len(prev_states)

\* One turn of the loop whose indexing fails: lines 165-169 raise before the model
\* is called.
IterationRaises ==
    /\ rpc = "loop"
    /\ LoopContinues
    /\ IndexErrorAt(step)
    /\ rpc' = "error"
    /\ UNCHANGED <<num_input_steps, num_pred_steps, init_states, target_states,
                   forcing_features, border_mask, interior_mask, step_diff_std,
                   step_diff_mean, prev_states, prediction_list, step, x_input,
                   returned, model_calls, window_list, y_list>>
    /\ UNCHANGED <<stats_vars, statics_vars>>

\* One whole turn of the loop: lines 165-196, the model answering y.
Iteration(y) ==
    /\ rpc = "loop"
    /\ LoopContinues
    /\ ~IndexErrorAt(step)
    /\ LET forcing         == forcing_features[step + 1]
           border_state    == target_states[step + 1]
           predicted_state == Rescale(prev_states[Len(prev_states)], y)
           new_state       == Blend(border_state, predicted_state)
       IN  /\ x_input' = [idx \in 1..num_input_steps |-> prev_states[idx]]
                            \o <<grid_static_features, forcing>>
           /\ prediction_list' = Append(prediction_list, new_state)
           /\ prev_states' = IF step < num_pred_steps - 1
                             THEN AdvanceWindow(prev_states, new_state)
                             ELSE prev_states
    /\ step' = step + 1
    /\ model_calls' = model_calls + 1
    /\ window_list' = Append(window_list, prev_states)
    /\ y_list' = Append(y_list, y)
    /\ UNCHANGED <<num_input_steps, num_pred_steps, init_states, target_states,
                   forcing_features, border_mask, interior_mask, step_diff_std,
                   step_diff_mean, rpc, returned>>
    /\ UNCHANGED <<stats_vars, statics_vars>>

\* The loop is over: torch.stack and the return (lines 198-202).
ReturnPrediction ==
    /\ rpc = "loop"
    /\ ~LoopContinues
    /\ returned' = <<[prediction |-> prediction_list, target_states |-> target_states]>>
    /\ rpc' = "done"
    /\ UNCHANGED <<num_input_steps, num_pred_steps, init_states, target_states,
                   forcing_features, border_mask, interior_mask, step_diff_std,
                   step_diff_mean, prev_states, prediction_list, step, x_input,
                   model_calls, window_list, y_list>>
    /\ UNCHANGED <<stats_vars, statics_vars>>

NextRollout ==
    \/ StartCommonStep
    \/ IterationRaises
    \/ \E y \in [Grid -> ModelOutputs] : Iteration(y)
    \/ ReturnPrediction

SpecRollout == InitRollout /\ [][NextRollout]_vars

(* --------------------------- rollout: properties ----------------------- *)

Last(s) == s[Len(s)]

\* C5: a batch whose step counts do not match its tensors makes common_step fail
\* before the first turn of the loop: the model is never called, no state is
\* predicted and nothing is returned.
C5_MismatchFailsBeforeLoop ==
    ~ValidBatch =>
        /\ model_calls = 0
        /\ prediction_list = <<>>
        /\ returned = <<>>

\* C6: on a valid batch the rollout window holds exactly num_input_steps entries
\* whenever a step starts (its input is about to be built) and after every update.
C6_WindowLength ==
    (ValidBatch /\ rpc \in {"loop", "done"}) =>
        /\ Len(prev_states) = num_input_steps
        /\ \A k \in 1..Len(window_list) : Len(window_list[k]) = num_input_steps

\* A valid batch, a window of several entries, between two steps: the window has
\* been advanced and is about to be used again.
C6_Witness ==
    /\ ValidBatch
    /\ rpc = "loop"
    /\ num_input_steps > 1
    /\ step > 0
    /\ step < num_pred_steps

\* C7: on a valid batch common_step never raises, and when it returns it has made
\* exactly num_pred_steps turns of the loop and returns num_pred_steps predicted
\* states, entry k being the blended state of step k, with target_states as the batch
\* gave them.
C7_ReturnsEveryStep ==
    ValidBatch =>
        /\ rpc # "error"
        /\ rpc \in {"start", "loop"} => ENABLED NextRollout
        /\ rpc = "done" =>
              /\ step = num_pred_steps
              /\ model_calls = num_pred_steps
              /\ Len(returned[1].prediction) = num_pred_steps
              /\ \A k \in 1..num_pred_steps :
                    returned[1].prediction[k] =
                        Blend(target_states[k], Rescale(Last(window_list[k]), y_list[k]))
              /\ returned[1].target_states = TargetStatesOf(num_pred_steps)

\* common_step has returned from a rollout of several steps.
C7_Witness ==
    /\ ValidBatch
    /\ rpc = "done"
    /\ num_pred_steps > 1
    /\ returned # <<>>

MaskPartition == \A p \in Grid : interior_mask[p] + border_mask[p] = 1

LastN(s, n) == IF n >= Len(s) THEN s ELSE SubSeq(s, Len(s) - n + 1, Len(s))

\* The window the claim gives step k (counted from 1): the last num_input_steps
\* entries of init_states followed by the blended states of the steps before k.
SlidingWindow(k) ==
    LastN(init_states \o SubSeq(prediction_list, 1, k - 1), num_input_steps)

\* The steps whose window has been advanced: every step made but the last one.
StepsAdvanced == IF step < num_pred_steps THEN step ELSE num_pred_steps - 1

\* C13: at every step the window the model input is built from is, oldest to newest,
\* the last num_input_steps entries of init_states followed by the blended states of
\* the earlier steps; the window is advanced after every step but the last; and
\* init_states and target_states stay as the batch gave them.
C13_WindowFollowsRollout ==
    /\ \A k \in 1..Len(window_list) : window_list[k] = SlidingWindow(k)
    /\ window_list # <<>> =>
          SubSeq(x_input, 1, num_input_steps) = SlidingWindow(Len(window_list))
    /\ rpc \in {"loop", "done"} => prev_states = SlidingWindow(StepsAdvanced + 1)
    /\ init_states = InitStatesOf(Len(init_states))
    /\ target_states = TargetStatesOf(Len(target_states))

(* ------------- AutoRegressiveLightning: the statics of the dataset ----- *)

\* Calls of __init__, on_validation_start and on_test_start followed in one run.
MaxCalls == 3

\* A Statics object, as far as the calls made on it can change it: how many times
\* transform_statics has changed its dimensions, how many times a loss has been
\* prepared on it, how many times rank_zero_setup has worked on it.
UntransformedStatics == [transformed |-> 0, prepared |-> 0, setup |-> 0]

\* The statistics procedures are not running.
NoStats ==
    /\ dataset = <<>>
    /\ standardize = FALSE
    /\ procedure = "none"
    /\ pc = "off"
    /\ type_index = 1
    /\ counter = 0
    /\ sum_means = <<>>
    /\ sum_squares = <<>>
    /\ best_min = <<>>
    /\ best_max = <<>>
    /\ results = <<>>
    /\ batch_index = 1
    /\ warned = {}
    /\ stats = <<>>
    /\ all_stats = <<>>
    /\ parameters_file = <<>>
    /\ diff_file = <<>>
    /\ error = "none"
    /\ workers_started = 0
    /\ worker_failures = 0

\* dataset_info holds its statics, untransformed; no module has been built.
InitStatics ==
    /\ heap = <<UntransformedStatics>>
    /\ cached_statics = 1
    /\ lpc = "none"
    /\ buffers = <<>>
    /\ call_log = <<>>
    /\ NoStats
    /\ NoRollout

\* The object itself handed on in place of a copy.
AliasOfStatics(h, ref) == [heap |-> h, ref |-> ref]

\* deepcopy(...dataset_info.statics) of lines 68, 232 and 277: a new object with the
\* contents of the one copied.
Deepcopy(h, ref) == [heap |-> Append(h, h[ref]), ref |-> Len(h) + 1]

\* model_kls.rank_zero_setup(model_settings, statics) of lines 49-52: it runs on rank
\* zero when the model class has the hook, and may then write to its argument.
rank_zero_init(h, ref, runs) ==
    IF runs THEN [h EXCEPT ![ref].setup = @ + 1] ELSE h

\* self.model.transform_statics(statics) of lines 114, 233 and 278: the model changes
\* the dimensions of its argument and returns it, or returns a new object.
transform_statics(h, ref, in_place) ==
    IF in_place
    THEN [heap |-> [h EXCEPT ![ref].transformed = @ + 1], ref |-> ref]
    ELSE [heap |-> Append(h, [h[ref] EXCEPT !.transformed = @ + 1]),
          ref  |-> Len(h) + 1]

\* loss.prepare(statics) of lines 131, 235, 281 and 282: the loss reads the statics,
\* and may write to them.
prepare(h, ref, writes) ==
    IF writes THEN [h EXCEPT ![ref].prepared = @ + 1] ELSE h

\* What a call leaves in call_log: the object deepcopy gave it and its contents at
\* that moment, the object given to transform_statics, the objects losses were
\* prepared on.
LogEntry(call, copy, transformed, prepared) ==
    [call        |-> call,
     copy        |-> copy.ref,
     start       |-> copy.heap[copy.ref],
     transformed |-> transformed,
     prepared    |-> prepared]

\* AutoRegressiveLightning.__init__ (lines 59-131) with hparams.loss = loss: another
\* module is built from the same dataset_info.
AutoRegressiveLightningInit(loss, runs, in_place, writes) ==
    /\ lpc # "off"
    /\ Len(call_log) < MaxCalls
    /\ LET statics == Deepcopy(heap, cached_statics)
           setup   == rank_zero_init(statics.heap, statics.ref, runs)
           moved   == transform_statics(setup, statics.ref, in_place)
           known   == loss \in {"mse", "mae"}
       IN  /\ buffers' = <<moved.ref>>
           /\ heap' = IF known THEN prepare(moved.heap, moved.ref, writes)
                      ELSE moved.heap
           /\ lpc' = IF known THEN "ready" ELSE "failed"
           /\ call_log' = Append(call_log,
                  LogEntry("__init__", statics, statics.ref,
                           IF known THEN <<moved.ref>> ELSE <<>>))
    /\ UNCHANGED cached_statics
    /\ UNCHANGED <<stats_vars, other_vars>>

\* on_validation_start (lines 228-237).
on_validation_start(in_place, writes) ==
    /\ lpc = "ready"
    /\ Len(call_log) < MaxCalls
    /\ LET statics == Deepcopy(heap, cached_statics)
           moved   == transform_statics(statics.heap, statics.ref, in_place)
       IN  /\ heap' = prepare(moved.heap, moved.ref, writes)
           /\ call_log' = Append(call_log,
                  LogEntry("on_validation_start", statics, statics.ref,
                           <<moved.ref>>))
    /\ UNCHANGED <<cached_statics, lpc, buffers>>
    /\ UNCHANGED <<stats_vars, other_vars>>

\* on_test_start (lines 271-289): the l1 and the rmse loss are prepared in turn.
on_test_start(in_place, l1_writes, rmse_writes) ==
    /\ lpc = "ready"
    /\ Len(call_log) < MaxCalls
    /\ LET statics == Deepcopy(heap, cached_statics)
           moved   == transform_statics(statics.heap, statics.ref, in_place)
           l1_done == prepare(moved.heap, moved.ref, l1_writes)
       IN  /\ heap' = prepare(l1_done, moved.ref, rmse_writes)
           /\ call_log' = Append(call_log,
                  LogEntry("on_test_start", statics, statics.ref,
                           <<moved.ref, moved.ref>>))
    /\ UNCHANGED <<cached_statics, lpc, buffers>>
    /\ UNCHANGED <<stats_vars, other_vars>>

NextStatics ==
    \/ \E loss \in {"mse", "mae", "huber"} : \E runs, in_place, writes \in BOOLEAN :
           AutoRegressiveLightningInit(loss, runs, in_place, writes)
    \/ \E in_place, writes \in BOOLEAN : on_validation_start(in_place, writes)
    \/ \E in_place, l1_writes, rmse_writes \in BOOLEAN :
           on_test_start(in_place, l1_writes, rmse_writes)

SpecStatics == InitStatics /\ [][NextStatics]_vars

(* --------------------------- statics: properties ----------------------- *)

\* The objects a call handed to transform_statics or to a loss's prepare.
ObjectsWorkedOn(entry) ==
    {entry.transformed} \cup {entry.prepared[n] : n \in 1..Len(entry.prepared)}

\* C11: whatever calls of __init__, on_validation_start and on_test_start have been
\* made, dataset_info.statics is as it was before the first of them; every call
\* started from a copy with those same untransformed contents, a new object each
\* time; and no transform_statics and no prepare was given the cached object.
C11_CachedStaticsNeverMutated ==
    lpc # "off" =>
        /\ heap[cached_statics] = UntransformedStatics
        /\ \A k \in 1..Len(call_log) :
              /\ call_log[k].start = UntransformedStatics
              /\ cached_statics \notin ObjectsWorkedOn(call_log[k])
              /\ \A j \in 1..(k - 1) : call_log[j].copy # call_log[k].copy

\* A module has been built and both hooks have run, each call's transform_statics
\* having changed its copy in place and a loss having written to it.
C11_Witness ==
    /\ Len(call_log) = 3
    /\ {call_log[k].call : k \in 1..3} =
           {"__init__", "on_validation_start", "on_test_start"}
    /\ \A k \in 1..3 :
          /\ call_log[k].transformed = call_log[k].prepared[1]
          /\ heap[call_log[k].copy].transformed > 0
          /\ heap[call_log[k].copy].prepared > 0

====
